---------------------------- MODULE Spec2Model ----------------------------
(***************************************************************************)
(* Model of src/src/duration.rs (embedded-time): the Duration trait with   *)
(* its period-ratio conversions from_dur / into_dur, the three variants    *)
(* generated by durations! (Seconds, Milliseconds, Microseconds), the      *)
(* Integer * Period scaling operator and the same-unit Add / Sub impls.    *)
(*                                                                         *)
(* The storage type T is instantiated at i32, the narrowest type for which *)
(* the numer().into() of line 93 (i32 -> T) exists, and the type          *)
(* of the doc tests (lines 22, 31, 443).  A value of T is a TLA+ integer   *)
(* in T_min_value .. T_max_value; every operator below is written so that  *)
(* no intermediate value leaves that interval.                             *)
(*                                                                         *)
(* Rust integer overflow depends on the build: with overflow checks (the   *)
(* debug profile) `*`, `+`, `-` panic, without them (the release profile)  *)
(* they wrap modulo 2^32.  The variable overflow_checks is that choice.    *)
(***************************************************************************)
EXTENDS Integers, Sequences, FiniteSets

VARIABLES
    overflow_checks,  \* the build: TRUE = overflow panics, FALSE = overflow wraps
    orig,             \* the Duration value the program constructed first
    cur,              \* the Duration value the program holds now
    panicked,         \* an operation panicked: the program is gone
    path,             \* the variants the value has been converted through
    last              \* the last operation: its name, receiver, argument, return

vars == <<overflow_checks, orig, cur, panicked, path, last>>

---------------------------------------------------------------------------
(* Bounds of the model *)

\* half-width of the windows of counts drawn around the interesting values
Win == 1
\* number of operations a behaviour applies to its value
MaxSteps == 2

---------------------------------------------------------------------------
(* The storage type T = i32 *)

T_max_value == 2147483647
T_min_value == -T_max_value - 1

InT(x) == T_min_value <= x /\ x <= T_max_value

\* the outcome of an expression of type T: a value, or a panic
Ok(v) == [panic |-> FALSE, val |-> v]
Panic == [panic |-> TRUE, val |-> 0]

\* a + b overflows T
AddOverflows(a, b) ==
    IF b >= 0 THEN a > T_max_value - b ELSE a < T_min_value - b

\* a + b modulo 2^32, as a two's complement i32
WrapAdd(a, b) ==
    IF ~AddOverflows(a, b) THEN a + b
    ELSE IF b >= 0 THEN (a - T_max_value - 1) + (b - T_max_value - 1)
    ELSE (a + T_max_value + 1) + (b + T_max_value + 1)

\* a - b overflows T
SubOverflows(a, b) ==
    IF b > 0 THEN a < T_min_value + b ELSE a > T_max_value + b

\* a - b modulo 2^32, as a two's complement i32
WrapSub(a, b) ==
    IF ~SubOverflows(a, b) THEN a - b
    ELSE IF b > 0 THEN (((a + T_max_value + 1) - b) + T_max_value) + 1
    ELSE (((a - T_max_value - 1) - b) - T_max_value) - 1

\* a * n overflows T (n >= 0: the numerators of the period ratios)
MulOverflows(a, n) ==
    IF n = 0 THEN FALSE
    ELSE IF n > 0
    THEN a > T_max_value \div n \/ a < (T_min_value + (n - 1)) \div n
    ELSE (a = T_min_value /\ n = -1) \/
         (n < -1 /\ (a < T_max_value \div n \/ a > (T_min_value \div n)))

\* a * n modulo 2^32, as a two's complement i32: binary double-and-add
RECURSIVE WrapMul(_, _)
WrapMul(a, n) ==
    IF n = 0 THEN 0
    ELSE IF n < 0 THEN WrapSub(0, WrapMul(a, -n))
    ELSE LET h == WrapMul(a, n \div 2)
             d == WrapAdd(h, h)
         IN  IF n % 2 = 1 THEN WrapAdd(d, a) ELSE d

\* mutant: the quotient rounded toward minus infinity
TruncDiv_floor(a, d) ==
    IF d = 0 THEN Panic ELSE Ok(a \div d)

\* Rust's `a / d` on T: the quotient rounded toward zero; a zero divisor
\* panics in every build, and so does T::MIN / -1
TruncDiv(a, d) ==
    IF d = 0 THEN Panic
    ELSE IF d > 0
    THEN Ok(IF a >= 0 THEN a \div d ELSE (a + (d - 1)) \div d)
    ELSE IF a = T_min_value /\ d = -1 THEN Panic
    ELSE IF d = T_min_value THEN Ok(IF a = T_min_value THEN 1 ELSE 0)
    ELSE Ok(-(IF a >= 0 THEN a \div (-d) ELSE (a + ((-d) - 1)) \div (-d)))

\* mutant: a product that saturates at the ends of T instead of wrapping
T_mul_saturating(a, n) ==
    IF MulOverflows(a, n)
    THEN Ok(IF (a < 0) = (n < 0) THEN T_max_value ELSE T_min_value)
    ELSE Ok(WrapMul(a, n))

\* `a * n` on T under the build's overflow policy
T_mul(a, n) ==
    IF MulOverflows(a, n)
    THEN IF overflow_checks THEN Panic ELSE Ok(WrapMul(a, n))
    ELSE Ok(WrapMul(a, n))

\* `a + b` on T under the build's overflow policy
T_add(a, b) ==
    IF AddOverflows(a, b) /\ overflow_checks THEN Panic ELSE Ok(WrapAdd(a, b))

\* `a - b` on T under the build's overflow policy
T_sub(a, b) ==
    IF SubOverflows(a, b) /\ overflow_checks THEN Panic ELSE Ok(WrapSub(a, b))

---------------------------------------------------------------------------
(* Period = Ratio<i32> (line 87), the rational type of the num crate.  Its  *)
(* division, used at lines 44 and 53, cross-reduces by the two gcds and    *)
(* builds the result with Ratio::new, which reduces to lowest terms and    *)
(* keeps the denominator positive.  The terms here never exceed 1_000_000, *)
(* so the i32 arithmetic of the ratio itself cannot overflow.              *)

Abs(x) == IF x < 0 THEN -x ELSE x

RECURSIVE Gcd(_, _)
Gcd(a, b) == IF b = 0 THEN Abs(a) ELSE Gcd(b, a % Abs(b))

\* Ratio::new_raw(numer, denom): the pair as given, not reduced
new_raw(numer, denom) == [numer |-> numer, denom |-> denom]

\* Ratio::new: the pair reduced to lowest terms, the denominator positive
RatioNew(numer, denom) ==
    LET g == Gcd(numer, denom)
        n == IF g = 0 THEN numer ELSE numer \div g
        d == IF g = 0 THEN denom ELSE denom \div g
    IN  IF d < 0 THEN new_raw(-n, -d) ELSE new_raw(n, d)

\* `lhs / rhs` on Ratio<i32>: (a/b) / (c/d) = (a*d) / (b*c), cross-reduced
\* by gcd(a, c) and gcd(b, d) and then normalised by Ratio::new
RatioDiv(lhs, rhs) ==
    LET gcd_ac == Gcd(lhs.numer, rhs.numer)
        gcd_bd == Gcd(lhs.denom, rhs.denom)
        ac == IF gcd_ac = 0 THEN 1 ELSE gcd_ac
        bd == IF gcd_bd = 0 THEN 1 ELSE gcd_bd
    IN  RatioNew((lhs.numer \div ac) * (rhs.denom \div bd),
                 (lhs.denom \div bd) * (rhs.numer \div ac))

---------------------------------------------------------------------------
(* durations![Seconds, (1, 1); Milliseconds, (1, 1_000);                   *)
(*            Microseconds, (1, 1_000_000)]                                *)

Seconds == "Seconds"
Milliseconds == "Milliseconds"
Microseconds == "Microseconds"

Variants == {Seconds, Milliseconds, Microseconds}

\* mutant: Milliseconds declared with the period 1/100
PERIOD_centi(V) ==
    CASE V = Seconds -> new_raw(1, 1)
      [] V = Milliseconds -> new_raw(1, 100)
      [] V = Microseconds -> new_raw(1, 1000000)

\* mutant: Milliseconds declared with the period -1/1000
PERIOD_negative(V) ==
    CASE V = Seconds -> new_raw(1, 1)
      [] V = Milliseconds -> new_raw(-1, 1000)
      [] V = Microseconds -> new_raw(1, 1000000)

\* const PERIOD: Period = Period::new_raw($numer, $denom)
PERIOD(V) ==
    CASE V = Seconds -> new_raw(1, 1)
      [] V = Milliseconds -> new_raw(1, 1000)
      [] V = Microseconds -> new_raw(1, 1000000)

\* fn period() -> Period
period(V) == PERIOD(V)

\* fn new(value: T) -> Self
new(V, value) == [unit |-> V, count |-> value]

\* fn count(self) -> T
count(self) == self.count

\* fn min_value() -> T
min_value(V) == T_min_value

\* mutant: the bound scaled by the variant's period
max_value_scaled(V) == T_max_value \div PERIOD(V).denom

\* fn max_value() -> T
max_value(V) == T_max_value

---------------------------------------------------------------------------
(* impl ops::Mul<Period> for Integer<T> *)

\* mutant: the body of Div<Period>: self.0 * denom / numer
mul_as_div(self, rhs) ==
    LET product == T_mul(self, rhs.denom)
    IN  IF product.panic THEN Panic ELSE TruncDiv(product.val, rhs.numer)

\* Self(self.0 * numer.into() / denom.into()), left to right
mul(self, rhs) ==
    LET product == T_mul(self, rhs.numer)
    IN  IF product.panic THEN Panic ELSE TruncDiv(product.val, rhs.denom)

---------------------------------------------------------------------------
(* trait Duration: the conversions.  The outcome is a Duration value or a  *)
(* panic.                                                                  *)

Value(V, r) == IF r.panic THEN Panic ELSE Ok(new(V, r.val))

\* mutant: the ratio taken the other way round, Self::PERIOD / U::PERIOD
from_dur_inverted(Self, other) ==
    Value(Self, mul(count(other), RatioDiv(PERIOD(Self), PERIOD(other.unit))))

\* Self::new of Integer(other.count()) * (U::PERIOD / Self::PERIOD)
from_dur(Self, other) ==
    Value(Self, mul(count(other), RatioDiv(PERIOD(other.unit), PERIOD(Self))))

\* mutant: the ratio taken the other way round, U::PERIOD / Self::PERIOD
into_dur_inverted(self, U) ==
    Value(U, mul(count(self), RatioDiv(PERIOD(U), PERIOD(self.unit))))

\* U::new of Integer(self.count()) * (Self::PERIOD / U::PERIOD)
into_dur(self, U) ==
    Value(U, mul(count(self), RatioDiv(PERIOD(self.unit), PERIOD(U))))

---------------------------------------------------------------------------
(* Same-unit arithmetic *)

\* impl ops::Add for Seconds<T>: Self(self.0 + rhs.0)
Seconds_add(self, rhs) == Value(Seconds, T_add(self.count, rhs.count))

\* mutant: the operands exchanged, Self(rhs.0 - self.0)
Seconds_sub_reversed(self, rhs) == Value(Seconds, T_sub(rhs.count, self.count))

\* impl ops::Sub for Seconds<T>: Self(self.0 - rhs.0)
Seconds_sub(self, rhs) == Value(Seconds, T_sub(self.count, rhs.count))

\* impl ops::Sub for Milliseconds<T>: Self(self.0 - rhs.0)
Milliseconds_sub(self, rhs) == Value(Milliseconds, T_sub(self.count, rhs.count))

---------------------------------------------------------------------------
(* The inputs: counts around zero, around the values of the doc tests,     *)
(* around the conversion factors, around the largest counts that still     *)
(* scale by 1_000 and by 1_000_000 without overflow, and at both ends of T *)

Near(b) == {b + d : d \in -Win..Win}

Counts ==
    Near(0) \cup Near(1000) \cup Near(-1000)
    \cup Near(1234) \cup Near(-1234) \cup Near(2345)
    \cup Near(1000000) \cup Near(-1000000)
    \cup Near(T_max_value \div 1000000) \cup Near(-(T_max_value \div 1000000))
    \cup Near(T_max_value \div 1000) \cup Near(-(T_max_value \div 1000))
    \cup {T_max_value - d : d \in 0..Win}
    \cup {T_min_value + d : d \in 0..Win}

\* right-hand sides of + and -
Rhs == {-1, 2, 1000}

NoOp == [op |-> "new", self |-> new(Seconds, 0), unit |-> Seconds, rhs |-> 0, ret |-> 0]

---------------------------------------------------------------------------
(* The program: construct a value, then apply operations to it *)

Init ==
    /\ overflow_checks \in BOOLEAN
    /\ orig \in {new(V, c) : V \in Variants, c \in Counts}
    /\ cur = orig
    /\ panicked = FALSE
    /\ path = <<orig.unit>>
    /\ last = [NoOp EXCEPT !.self = orig, !.unit = orig.unit]

CanStep == ~panicked /\ Len(path) <= MaxSteps

\* the outcome r of an operation on cur becomes the program's state
Becomes(r, opname, U, rhs) ==
    /\ panicked' = r.panic
    /\ cur' = IF r.panic THEN cur ELSE r.val
    /\ path' = Append(path, U)
    /\ last' = [op |-> opname, self |-> cur, unit |-> U, rhs |-> rhs, ret |-> 0]
    /\ UNCHANGED <<overflow_checks, orig>>

\* U::from_dur(cur)
FromDur(U) ==
    /\ CanStep
    /\ Becomes(from_dur(U, cur), "from_dur", U, 0)

\* cur.into_dur::<U>()
IntoDur(U) ==
    /\ CanStep
    /\ Becomes(into_dur(cur, U), "into_dur", U, 0)

\* cur + Seconds(b): only Seconds implements Add
AddSeconds(b) ==
    /\ CanStep
    /\ cur.unit = Seconds
    /\ Becomes(Seconds_add(cur, new(Seconds, b)), "add", Seconds, b)

\* cur - Seconds(b)
SubSeconds(b) ==
    /\ CanStep
    /\ cur.unit = Seconds
    /\ Becomes(Seconds_sub(cur, new(Seconds, b)), "sub", Seconds, b)

\* cur - Milliseconds(b)
SubMilliseconds(b) ==
    /\ CanStep
    /\ cur.unit = Milliseconds
    /\ Becomes(Milliseconds_sub(cur, new(Milliseconds, b)), "sub", Milliseconds, b)

\* V::min_value(): a query, the value is left alone
MinValue(V) ==
    /\ CanStep
    /\ last' = [op |-> "min_value", self |-> cur, unit |-> V, rhs |-> 0,
                ret |-> min_value(V)]
    /\ path' = Append(path, cur.unit)
    /\ UNCHANGED <<overflow_checks, orig, cur, panicked>>

\* V::max_value(): a query, the value is left alone
MaxValue(V) ==
    /\ CanStep
    /\ last' = [op |-> "max_value", self |-> cur, unit |-> V, rhs |-> 0,
                ret |-> max_value(V)]
    /\ path' = Append(path, cur.unit)
    /\ UNCHANGED <<overflow_checks, orig, cur, panicked>>

Next ==
    \/ \E U \in Variants : FromDur(U)
    \/ \E U \in Variants : IntoDur(U)
    \/ \E b \in Rhs : AddSeconds(b)
    \/ \E b \in Rhs : SubSeconds(b)
    \/ \E b \in Rhs : SubMilliseconds(b)
    \/ \E V \in Variants : MinValue(V)
    \/ \E V \in Variants : MaxValue(V)

Spec == Init /\ [][Next]_vars

TypeOK ==
    /\ overflow_checks \in BOOLEAN
    /\ orig.unit \in Variants /\ InT(orig.count)
    /\ cur.unit \in Variants /\ InT(cur.count)
    /\ panicked \in BOOLEAN
    /\ Len(path) \in 1..(MaxSteps + 1)

---------------------------------------------------------------------------
(* Arithmetic the properties are stated with, written independently of the *)
(* operators of the model above                                            *)

\* the ratio U.PERIOD / S.PERIOD in lowest terms, tabulated by hand
ExpRatio(U, S) ==
    CASE U = S -> <<1, 1>>
      [] U = Seconds /\ S = Milliseconds -> <<1000, 1>>
      [] U = Seconds /\ S = Microseconds -> <<1000000, 1>>
      [] U = Milliseconds /\ S = Microseconds -> <<1000, 1>>
      [] U = Milliseconds /\ S = Seconds -> <<1, 1000>>
      [] U = Microseconds /\ S = Milliseconds -> <<1, 1000>>
      [] U = Microseconds /\ S = Seconds -> <<1, 1000000>>

\* the mathematical product c * n (n > 0) lies in the range of i32
FitsMul(c, n) ==
    LET m == 2147483647 \div n
    IN  \/ (-m <= c /\ c <= m)
        \/ (c = -m - 1 /\ 2147483647 % n = n - 1)

\* c * n modulo 2^32 as an i32, by 16-bit limbs (0 <= n < 2^20)
LimbMul(c, n) ==
    LET cl == c % 65536
        ch == c \div 65536
        nl == n % 65536
        nh == n \div 65536
        low == cl * nl
        lo16 == low % 65536
        hi16 == ((low \div 65536) + ch * nl + cl * nh) % 65536
        shi == IF hi16 >= 32768 THEN hi16 - 65536 ELSE hi16
    IN  shi * 65536 + lo16

\* p / d rounded toward zero (d > 0)
TruncQ(p, d) ==
    IF p >= 0 THEN p \div d
    ELSE LET m == -(p + 1)
         IN  (-(m \div d)) - (IF m % d = d - 1 THEN 1 ELSE 0)

\* the last operation was a conversion
Converted == last.op \in {"from_dur", "into_dur"}

\* what the last operation left: the value, or a panic
Outcome == IF panicked THEN Panic ELSE Ok(cur)

---------------------------------------------------------------------------
(* C1: S::from_dur(U(c)) has the count (c * numer) / denom, numer/denom    *)
(* the ratio U.PERIOD / S.PERIOD, computed in i32 arithmetic: the exact    *)
(* product when it fits, else a panic (overflow checks) or the product     *)
(* modulo 2^32 (no overflow checks), then divided toward zero.  The three  *)
(* documented examples hold.                                               *)
C1_FromDurScales ==
    last.op = "from_dur" =>
        LET c == last.self.count
            r == ExpRatio(last.self.unit, last.unit)
        IN  /\ IF FitsMul(c, r[1])
               THEN Outcome = Ok(new(last.unit, TruncQ(c * r[1], r[2])))
               ELSE IF overflow_checks
               THEN panicked
               ELSE Outcome = Ok(new(last.unit, TruncQ(LimbMul(c, r[1]), r[2])))
            /\ (last.self = new(Seconds, 1000) /\ last.unit = Milliseconds
                    => Outcome = Ok(new(Milliseconds, 1000000)))
            /\ (last.self = new(Milliseconds, 1234) /\ last.unit = Seconds
                    => Outcome = Ok(new(Seconds, 1)))
            /\ (last.self = new(Milliseconds, 1234) /\ last.unit = Microseconds
                    => Outcome = Ok(new(Microseconds, 1234000)))

\* Seconds::from_dur(Milliseconds(1_234)) returned Seconds(1)
C1_Witness ==
    /\ last.op = "from_dur"
    /\ last.self = new(Milliseconds, 1234)
    /\ last.unit = Seconds
    /\ Outcome = Ok(new(Seconds, 1))

(* C2: U::from_dur(x) and x.into_dur::<U>() are the same outcome, for      *)
(* every value x and every target U.                                       *)
C2_IntoFromAgree ==
    /\ last.op = "from_dur" => Outcome = into_dur(last.self, last.unit)
    /\ last.op = "into_dur" => Outcome = from_dur(last.unit, last.self)

\* Milliseconds(2_345).into_dur() returned Seconds(2)
C2_Witness ==
    /\ last.op = "into_dur"
    /\ last.self = new(Milliseconds, 2345)
    /\ last.unit = Seconds
    /\ Outcome = Ok(new(Seconds, 2))

\* the value went Seconds -> Milliseconds -> Seconds
RoundTripped == path = <<Seconds, Milliseconds, Seconds>>

\* the trip Seconds -> Milliseconds -> Seconds was started or completed
RoundTripping == RoundTripped \/ path = <<Seconds, Milliseconds>>

(* C3 as claimed: Seconds -> Milliseconds -> Seconds gives back the        *)
(* original count for every count of the storage type.                     *)
C3_RoundTripAnyCount ==
    /\ RoundTripping => ~panicked
    /\ RoundTripped => cur = orig

(* C3, amended: Seconds -> Milliseconds -> Seconds gives back the original *)
(* count for every count c whose product c * 1000 is in the range of the   *)
(* storage type.                                                           *)
C3_RoundTripInRange ==
    FitsMul(orig.count, 1000) =>
        /\ RoundTripping => ~panicked
        /\ RoundTripped => cur = orig

\* Seconds(-2_147_483) went to Milliseconds and came back
C3_Witness ==
    /\ RoundTripped
    /\ orig = new(Seconds, -2147483)
    /\ last.self = new(Milliseconds, -2147483000)
    /\ cur = orig

(* C4: converting Milliseconds(c) to Seconds divides c by 1000 and drops    *)
(* the fraction toward zero, for positive and negative c alike: the result *)
(* q has the sign of c (or is 0), 1000 * q is no farther from zero than c, *)
(* and differs from c by less than 1000.  Milliseconds(-1_234) gives       *)
(* Seconds(-1), Milliseconds(2_345).into_dur() gives Seconds(2).           *)
C4_CoarseningTruncatesTowardZero ==
    (Converted /\ last.self.unit = Milliseconds /\ last.unit = Seconds) =>
        LET c == last.self.count
            q == cur.count
        IN  /\ ~panicked
            /\ cur.unit = Seconds
            /\ IF c >= 0
               THEN 0 <= q /\ q <= 2147483 /\ 1000 * q <= c /\ c - 1000 * q < 1000
               ELSE -2147483 <= q /\ q <= 0 /\ 1000 * q >= c /\ 1000 * q - c < 1000
            /\ (c = -1234 => q = -1)
            /\ (c = 2345 => q = 2)

\* Seconds::from_dur(Milliseconds(-1_234)) returned Seconds(-1)
C4_Witness ==
    /\ last.op = "from_dur"
    /\ last.self = new(Milliseconds, -1234)
    /\ last.unit = Seconds
    /\ Outcome = Ok(new(Seconds, -1))

(* C5: two values of different variants for the same physical duration     *)
(* convert to each other's counts: for each pair of variants with integer  *)
(* factor k (1000, 1000, 1000000), the coarser count s converts to s * k   *)
(* when s * k is in range, and the finer count s * k converts back to s.   *)
C5_SameDurationBothWays ==
    Converted =>
        LET c == last.self.count
            r == ExpRatio(last.self.unit, last.unit)
        IN  /\ (r[1] > 1 /\ FitsMul(c, r[1]))
                   => Outcome = Ok(new(last.unit, c * r[1]))
            /\ (r[2] > 1 /\ c % r[2] = 0)
                   => Outcome = Ok(new(last.unit, c \div r[2]))

\* Milliseconds(2_147_483) became Microseconds(2_147_483_000) and came back
C5_Witness ==
    /\ path = <<Milliseconds, Microseconds, Milliseconds>>
    /\ orig = new(Milliseconds, 2147483)
    /\ last.self = new(Microseconds, 2147483000)
    /\ Outcome = Ok(orig)

\* a + b is in the range of i32
SumInRange(a, b) ==
    IF b >= 0 THEN a <= 2147483647 - b ELSE a >= (-2147483647 - 1) - b

\* a - b is in the range of i32
DifferenceInRange(a, b) ==
    IF b >= 0 THEN a >= (-2147483647 - 1) + b ELSE a <= 2147483647 + b

(* C6: same-unit arithmetic acts on the counts and keeps the variant:      *)
(* Seconds(a) + Seconds(b) is Seconds(a + b), Seconds(a) - Seconds(b) is   *)
(* Seconds(a - b), Milliseconds(a) - Milliseconds(b) is                    *)
(* Milliseconds(a - b), whenever the result is in range; no period scaling.*)
C6_SameUnitArithmetic ==
    LET a == last.self.count
        b == last.rhs
    IN  /\ (last.op = "add" /\ SumInRange(a, b))
               => (last.self.unit = Seconds /\ Outcome = Ok(new(Seconds, a + b)))
        /\ (last.op = "sub" /\ DifferenceInRange(a, b))
               => (last.self.unit \in {Seconds, Milliseconds}
                   /\ Outcome = Ok(new(last.self.unit, a - b)))

\* Milliseconds(1_234) - Milliseconds(1_000) returned Milliseconds(234)
C6_Witness ==
    /\ last.op = "sub"
    /\ last.self = new(Milliseconds, 1234)
    /\ last.rhs = 1000
    /\ Outcome = Ok(new(Milliseconds, 234))

(* C7: for every variant V, V::min_value() is i32::MIN and V::max_value()  *)
(* is i32::MAX: bounds of the raw count, the same for every period.        *)
C7_BoundsAreStorageBounds ==
    /\ last.op = "min_value" => last.ret = -2147483647 - 1
    /\ last.op = "max_value" => last.ret = 2147483647

\* Microseconds::min_value() returned i32::MIN
C7_Witness ==
    /\ last.op = "min_value"
    /\ last.unit = Microseconds
    /\ last.ret = -2147483647 - 1

(* C8: conversion checks no overflow itself.  A conversion panics exactly  *)
(* when the product c * numer leaves the range of i32 and the build checks *)
(* overflow; when the build does not, the result is the product modulo     *)
(* 2^32 divided by denom: not clamped, not an error value.  The overflow   *)
(* is decided by the product alone, before the division.                   *)
C8_OverflowIsTheStorageTypes ==
    Converted =>
        LET c == last.self.count
            r == ExpRatio(last.self.unit, last.unit)
        IN  /\ panicked <=> (overflow_checks /\ ~FitsMul(c, r[1]))
            /\ (~FitsMul(c, r[1]) /\ ~overflow_checks)
                   => cur = new(last.unit, TruncQ(LimbMul(c, r[1]), r[2]))

\* without overflow checks Seconds(2_147_484) became
\* Milliseconds(2_147_484_000 - 2^32)
C8_Witness ==
    /\ Converted
    /\ ~overflow_checks
    /\ last.self = new(Seconds, 2147484)
    /\ last.unit = Milliseconds
    /\ Outcome = Ok(new(Milliseconds, -2147483296))

\* the sign of x: -1, 0 or 1
Sign(x) == IF x < 0 THEN -1 ELSE IF x > 0 THEN 1 ELSE 0

(* C9 as claimed: the periods are 1/1, 1/1000 and 1/1000000 for every      *)
(* instance, the ratio of any two has a positive numerator and             *)
(* denominator, and no conversion divides by zero or flips the sign of the *)
(* count.                                                                  *)
C9_NoConversionFlipsSign ==
    /\ \A V \in Variants :
           /\ period(V) = PERIOD(V)
           /\ PERIOD(V).numer = 1
           /\ PERIOD(V).denom = ExpRatio(V, Seconds)[2]
    /\ period(cur.unit) = PERIOD(cur.unit)
    /\ \A U, S \in Variants :
           /\ RatioDiv(PERIOD(U), PERIOD(S)).numer > 0
           /\ RatioDiv(PERIOD(U), PERIOD(S)).denom > 0
    /\ (Converted /\ ~panicked)
           => Sign(cur.count) \in {0, Sign(last.self.count)}

(* C9, amended: the periods are 1/1, 1/1000 and 1/1000000 for every        *)
(* instance, the ratio of any two has a positive numerator and             *)
(* denominator, no conversion divides by zero, and no conversion whose     *)
(* product c * numer is in the range of the storage type flips the sign of *)
(* the count.                                                              *)
C9_PositiveRatios ==
    /\ \A V \in Variants :
           /\ period(V) = PERIOD(V)
           /\ PERIOD(V).numer = 1
           /\ PERIOD(V).denom = ExpRatio(V, Seconds)[2]
    /\ \A U, S \in Variants :
           /\ RatioDiv(PERIOD(U), PERIOD(S)).numer > 0
           /\ RatioDiv(PERIOD(U), PERIOD(S)).denom > 0
    /\ (Converted /\ FitsMul(last.self.count,
                             ExpRatio(last.self.unit, last.unit)[1]))
           => /\ ~panicked
              /\ Sign(cur.count) \in {0, Sign(last.self.count)}

\* Microseconds(-1_000_001) became Seconds(-1): negative stays negative
C9_Witness ==
    /\ Converted
    /\ last.self = new(Microseconds, -1000001)
    /\ last.unit = Seconds
    /\ Outcome = Ok(new(Seconds, -1))

(* C10: conversions compose.  When no step overflows, Seconds ->           *)
(* Milliseconds -> Microseconds gives what Seconds -> Microseconds gives,  *)
(* c * 1000000; and Microseconds -> Milliseconds -> Seconds gives what     *)
(* Microseconds -> Seconds gives, c / 1000000 toward zero, also for        *)
(* negative c.                                                             *)
C10_ConversionsCompose ==
    /\ (path = <<Seconds, Milliseconds, Microseconds>>
        /\ FitsMul(orig.count, 1000000))
           => /\ Outcome = from_dur(Microseconds, orig)
              /\ Outcome = Ok(new(Microseconds, orig.count * 1000000))
    /\ (path = <<Microseconds, Milliseconds, Seconds>>)
           => /\ Outcome = from_dur(Seconds, orig)
              /\ Outcome = Ok(new(Seconds, TruncQ(orig.count, 1000000)))

\* Microseconds(-1_000_001) went through Milliseconds(-1_000) to Seconds(-1)
C10_Witness ==
    /\ path = <<Microseconds, Milliseconds, Seconds>>
    /\ orig = new(Microseconds, -1000001)
    /\ last.self = new(Milliseconds, -1000)
    /\ Outcome = Ok(new(Seconds, -1))

\* Rust's `c % k` on i32 (k > 0): the remainder with the sign of c
Rem(c, k) ==
    LET m == c % k
    IN  IF c >= 0 \/ m = 0 THEN m ELSE m - k

\* x is between zero and c, both included: same sign, no farther from zero
TowardZeroOf(x, c) == IF c >= 0 THEN 0 <= x /\ x <= c ELSE c <= x /\ x <= 0

\* the value went from a finer variant to a coarser one and back
CoarsenedAndBack ==
    /\ Len(path) = 3
    /\ path[1] = path[3]
    /\ ExpRatio(path[1], path[2])[2] > 1

(* C11: coarsening is total and its loss is bounded.  For every count c of *)
(* a finer variant and a coarser target with factor k, the ratio used has  *)
(* numerator 1, so nothing overflows and nothing panics; the result q is   *)
(* no farther from zero than c; and converting q back to the finer variant *)
(* gives c - (c rem k): a value with the sign of c or zero, no farther     *)
(* from zero than c, and less than k away from c.                          *)
C11_CoarseningTotalLossBounded ==
    /\ (Converted /\ ExpRatio(last.self.unit, last.unit)[2] > 1)
           => /\ RatioDiv(PERIOD(last.self.unit), PERIOD(last.unit)).numer = 1
              /\ ~panicked
              /\ cur.unit = last.unit
              /\ TowardZeroOf(cur.count, last.self.count)
    /\ CoarsenedAndBack
           => LET c == orig.count
                  k == ExpRatio(path[1], path[2])[2]
              IN  /\ ~panicked
                  /\ cur = new(orig.unit, c - Rem(c, k))
                  /\ TowardZeroOf(cur.count, c)
                  /\ IF c >= 0 THEN c - cur.count < k ELSE cur.count - c < k

\* Milliseconds(-1_234) went to Seconds(-1) and came back as
\* Milliseconds(-1_000)
C11_Witness ==
    /\ path = <<Milliseconds, Seconds, Milliseconds>>
    /\ orig = new(Milliseconds, -1234)
    /\ last.self = new(Seconds, -1)
    /\ Outcome = Ok(new(Milliseconds, -1000))

=============================================================================
